---- MODULE Spec2Model ----
(***************************************************************************)
(* AI vs AI Akinator (src/ai_akinator.py): the AIAkinator object, its      *)
(* play_game loop, the two role prompt builders and _make_api_call with    *)
(* its optional streaming.  The OpenAI client is the environment: each     *)
(* completion either raises or delivers one of a small set of responses,   *)
(* given as the ordered chunk contents of the stream.                      *)
(***************************************************************************)
EXTENDS Integers, Sequences, FiniteSets, TLC

VARIABLES
    client,                \* self.client: the responses the service behind it gives
    earlier,               \* outcomes of earlier play_game calls, held by the caller
    stream,                \* self.stream
    max_questions,         \* self.max_questions
    question_count,        \* self.question_count
    heap,                  \* the list objects allocated so far, by identity
    conversation_history,  \* self.conversation_history: a reference into heap
    pc,                    \* position in play_game
    api,                   \* position in _make_api_call ("none" outside it)
    concept,               \* play_game's parameter
    question,              \* play_game's local
    answer,                \* play_game's local
    pending,               \* chunks of the open stream not yet iterated
    full_response,         \* _make_api_call's accumulator
    result,                \* <<>>, or <<outcome>> once play_game has returned
    error,                 \* the exception that left play_game, or "none"
    call_log,              \* history variable: the requests of this play_game call
    responses              \* history variable: what the client delivered per request

vars == <<client, earlier, stream, max_questions, question_count, heap, conversation_history, pc,
          api, concept, question, answer, pending, full_response, result, error,
          call_log, responses>>

\* ---------------------------------------------------------------- bounds

\* The largest max_questions a session is configured with.
MaxTurns == 3

\* ------------------------------------------------------- the environment

\* Callers' concepts; main() uses "Einstein".
Concepts == {"Einstein", ""}

\* Responses of the model in the guesser role, as stream chunk contents.
GuesserResponses == { <<"Is it a person?">>, <<"Is it ", "Einstein?">> }

\* Responses of the model in the answerer role, as stream chunk contents.  An
\* empty content stands for a chunk whose delta carries no text.
AnswererResponses ==
    { <<"DONE">>, <<"D", "ONE">>, <<"done">>, <<" ", "DONE">>, <<"DONE", ".">>,
      <<"Yes">>, <<"", "No">>, <<"Sometimes">>, <<"Partially">>, <<"I don't know">> }

\* The service the sessions of Spec talk to.
FullClient == [guesser |-> GuesserResponses, answerer |-> AnswererResponses]

\* A service of few words, for objects that play several games.
SmallClient == [guesser |-> { <<"Is it a person?">> },
                answerer |-> { <<"D", "ONE">>, <<"No">> }]

\* The text of a whole response: message.content of the non-streaming API.
RECURSIVE Content(_)
Content(chunks) ==
    IF chunks = <<>> THEN "" ELSE Head(chunks) \o Content(Tail(chunks))

\* Value of a local that is not bound yet.
Unbound == "<unbound>"

\* ------------------------------------------------------------- the object

\* The list self.conversation_history refers to.
History == heap[conversation_history]

\* The object after __init__.  stream is the constructor's argument.  The
\* constructor sets max_questions to 100; it is the session's configured turn
\* bound, drawn here from 0..MaxTurns.  The list of line 18 is heap[1].
Init ==
    /\ client = FullClient
    /\ earlier = <<>>
    /\ stream \in BOOLEAN
    /\ max_questions \in 0..MaxTurns
    /\ question_count = 0
    /\ heap = << <<>> >>
    /\ conversation_history = 1
    /\ pc = "idle"
    /\ api = "none"
    /\ concept = Unbound
    /\ question = Unbound
    /\ answer = Unbound
    /\ pending = <<>>
    /\ full_response = ""
    /\ result = <<>>
    /\ error = "none"
    /\ call_log = <<>>
    /\ responses = <<>>

\* ------------------------------------------------------- prompt builders

AnswererTemperature == 3

\* The guesser sampled as the answerer is.
GuesserTemperatureOfAnswerer == AnswererTemperature

GuesserTemperature == 8

AnswererMessages(c, q) ==
    << [role |-> "system",
        content |-> "You are playing Akinator. You know the secret concept: \""
                    \o c \o "\". Answer only with Yes, No, Sometimes, Partially, I don't know, DONE."],
       [role |-> "user", content |-> "Question: " \o q] >>

RECURSIVE JoinLines(_)
JoinLines(lines) ==
    IF lines = <<>> THEN ""
    ELSE IF Len(lines) = 1 THEN lines[1]
    ELSE lines[1] \o "\n" \o JoinLines(Tail(lines))

\* A rendering that numbers the pairs from 0, as enumerate does.
HistoryTextFromZero(h) ==
    IF h = <<>> THEN ""
    ELSE JoinLines([i \in 1..Len(h) |->
            "Q" \o ToString(i - 1) \o ": " \o h[i].question \o "\nA"
                \o ToString(i - 1) \o ": " \o h[i].answer])

HistoryText(h) ==
    IF h = <<>> THEN ""
    ELSE JoinLines([i \in 1..Len(h) |->
            "Q" \o ToString(i) \o ": " \o h[i].question \o "\nA"
                \o ToString(i) \o ": " \o h[i].answer])

GuesserMessages(h) ==
    << [role |-> "system",
        content |-> "You are playing Akinator as the guesser. Ask yes/no questions; guess with \"Is it X?\". Don't repeat questions."],
       [role |-> "user",
        content |-> "Based on this conversation history, what is your next question?\n\n"
                    \o (IF HistoryText(h) # "" THEN HistoryText(h)
                        ELSE "This is the first question.")
                    \o "\n\nAsk your next question:"] >>

\* -------------------------------------------------------------- play_game

\* Variants of the loop test with the comparison or the bound off by one.
LoopConditionInclusive(count, max) == count <= max

LoopConditionShort(count, max) == count + 1 < max

\* A loop test that stops only when the counter meets the bound.
LoopConditionUntilEqual(count, max) == count # max

LoopCondition(count, max) == count < max

\* A win test that normalises the answer (case, whitespace, punctuation).
IsDoneNormalised(a) == a \in {"DONE", "done", " DONE", "DONE."}

IsDone(a) == a = "DONE"

\* An outcome that reports the last question (the guess) as the concept.
OutcomeWithGuess(success) ==
    [success |-> success, concept |-> question, questions_asked |-> question_count,
     conversation |-> conversation_history]

Outcome(success) ==
    [success |-> success, concept |-> concept, questions_asked |-> question_count,
     conversation |-> conversation_history]

\* A reset that empties the list in place instead of binding a new one.
NewGameClearingList(c) ==
    /\ concept' = c
    /\ heap' = [heap EXCEPT ![conversation_history] = <<>>]
    /\ conversation_history' = conversation_history
    /\ question_count' = 0
    /\ pc' = "loop"

\* A reset that leaves the counter as the last game left it.
NewGameKeepingCount(c) ==
    /\ concept' = c
    /\ heap' = Append(heap, <<>>)
    /\ conversation_history' = Len(heap) + 1
    /\ question_count' = question_count
    /\ pc' = "loop"

\* Lines 113-114: a new empty list is bound, the counter is set to 0.
NewGame(c) ==
    /\ concept' = c
    /\ heap' = Append(heap, <<>>)
    /\ conversation_history' = Len(heap) + 1
    /\ question_count' = 0
    /\ pc' = "loop"

PlayGame(c) ==
    /\ pc = "idle"
    /\ NewGame(c)
    /\ UNCHANGED <<client, earlier, stream, max_questions, api, question, answer, pending,
                   full_response, result, error, call_log, responses>>

NextTurn ==
    /\ pc = "loop"
    /\ LoopCondition(question_count, max_questions)
    /\ question_count' = question_count + 1
    /\ pc' = "ask"
    /\ UNCHANGED <<client, earlier, stream, max_questions, heap, conversation_history, api, concept,
                   question, answer, pending, full_response, result, error,
                   call_log, responses>>

GameOver ==
    /\ pc = "loop"
    /\ ~LoopCondition(question_count, max_questions)
    /\ result' = <<Outcome(FALSE)>>
    /\ pc' = "returned"
    /\ UNCHANGED <<client, earlier, stream, max_questions, question_count, heap, conversation_history,
                   api, concept, question, answer, pending, full_response, error,
                   call_log, responses>>

\* A guesser request built without the history.
AskGuesserWithoutHistory ==
    /\ pc = "ask" /\ api = "none"
    /\ call_log' = Append(call_log,
           [role |-> "guesser", messages |-> GuesserMessages(<<>>),
            temperature |-> GuesserTemperature, stream |-> stream])
    /\ api' = "create"
    /\ UNCHANGED <<client, earlier, stream, max_questions, question_count, heap, conversation_history,
                   pc, concept, question, answer, pending, full_response, result,
                   error, responses>>

AskGuesser ==
    /\ pc = "ask" /\ api = "none"
    /\ call_log' = Append(call_log,
           [role |-> "guesser", messages |-> GuesserMessages(History),
            temperature |-> GuesserTemperature, stream |-> stream])
    /\ api' = "create"
    /\ UNCHANGED <<client, earlier, stream, max_questions, question_count, heap, conversation_history,
                   pc, concept, question, answer, pending, full_response, result,
                   error, responses>>

\* An answerer request that also carries the transcript so far.
AskAnswererWithHistory ==
    /\ pc = "answer" /\ api = "none"
    /\ call_log' = Append(call_log,
           [role |-> "answerer",
            messages |-> AnswererMessages(concept, question)
                         \o <<[role |-> "user", content |-> HistoryText(History)]>>,
            temperature |-> AnswererTemperature, stream |-> stream])
    /\ api' = "create"
    /\ UNCHANGED <<client, earlier, stream, max_questions, question_count, heap, conversation_history,
                   pc, concept, question, answer, pending, full_response, result,
                   error, responses>>

AskAnswerer ==
    /\ pc = "answer" /\ api = "none"
    /\ call_log' = Append(call_log,
           [role |-> "answerer", messages |-> AnswererMessages(concept, question),
            temperature |-> AnswererTemperature, stream |-> stream])
    /\ api' = "create"
    /\ UNCHANGED <<client, earlier, stream, max_questions, question_count, heap, conversation_history,
                   pc, concept, question, answer, pending, full_response, result,
                   error, responses>>

\* A recording that inserts the exchange at the front of the list.
RecordExchangeAtFront ==
    /\ pc = "record"
    /\ heap' = [heap EXCEPT ![conversation_history] =
                    <<[question |-> question, answer |-> answer]>> \o @]
    /\ pc' = "check"
    /\ UNCHANGED <<client, earlier, stream, max_questions, question_count, conversation_history, api,
                   concept, question, answer, pending, full_response, result, error,
                   call_log, responses>>

RecordExchange ==
    /\ pc = "record"
    /\ heap' = [heap EXCEPT ![conversation_history] =
                    Append(@, [question |-> question, answer |-> answer])]
    /\ pc' = "check"
    /\ UNCHANGED <<client, earlier, stream, max_questions, question_count, conversation_history, api,
                   concept, question, answer, pending, full_response, result, error,
                   call_log, responses>>

\* The success branch without its return statement.
WinWithoutReturn ==
    /\ pc = "check"
    /\ IsDone(answer)
    /\ pc' = "loop"
    /\ UNCHANGED <<client, earlier, stream, max_questions, question_count, heap, conversation_history,
                   api, concept, question, answer, pending, full_response, result,
                   error, call_log, responses>>

Win ==
    /\ pc = "check"
    /\ IsDone(answer)
    /\ result' = <<Outcome(TRUE)>>
    /\ pc' = "returned"
    /\ UNCHANGED <<client, earlier, stream, max_questions, question_count, heap, conversation_history,
                   api, concept, question, answer, pending, full_response, error,
                   call_log, responses>>

Continue ==
    /\ pc = "check"
    /\ ~IsDone(answer)
    /\ pc' = "loop"
    /\ UNCHANGED <<client, earlier, stream, max_questions, question_count, heap, conversation_history,
                   api, concept, question, answer, pending, full_response, result,
                   error, call_log, responses>>

\* --------------------------------------------------------- _make_api_call

\* The responses the model can give to the request in flight.
Replies == IF pc = "ask" THEN client.guesser ELSE client.answerer

\* _make_api_call returns text to the statement of play_game that called it.
Return(text) ==
    /\ api' = "none"
    /\ IF pc = "ask"
       THEN question' = text /\ pc' = "answer" /\ answer' = answer
       ELSE answer' = text /\ pc' = "record" /\ question' = question

\* A handler that turns the exception into the "game over" outcome.
RaiseSwallowed ==
    /\ api' = "none"
    /\ pc' = "returned"
    /\ result' = <<Outcome(FALSE)>>
    /\ pending' = <<>>
    /\ full_response' = ""
    /\ UNCHANGED <<client, earlier, stream, max_questions, question_count, heap, conversation_history,
                   concept, question, answer, error, call_log>>

\* A handler that records the unfinished turn before the exception goes on.
RaiseRecordingTurn ==
    /\ api' = "none"
    /\ pc' = "failed"
    /\ error' = "InferenceError"
    /\ pending' = <<>>
    /\ full_response' = ""
    /\ heap' = [heap EXCEPT ![conversation_history] =
                    Append(@, [question |-> question, answer |-> Unbound])]
    /\ UNCHANGED <<client, earlier, stream, max_questions, question_count, conversation_history,
                   concept, question, answer, result, call_log>>

\* An exception of the client leaves _make_api_call and play_game: nothing
\* catches it.
Raise ==
    /\ api' = "none"
    /\ pc' = "failed"
    /\ error' = "InferenceError"
    /\ pending' = <<>>
    /\ full_response' = ""
    /\ UNCHANGED <<client, earlier, stream, max_questions, question_count, heap, conversation_history,
                   concept, question, answer, result, call_log>>

\* An accumulator that is assigned instead of extended.
AccumulateOverwrite(full, content) == content

Accumulate(full, content) == full \o content

CreateFails ==
    /\ api = "create"
    /\ responses' = Append(responses, [ok |-> FALSE, chunks |-> <<>>])
    /\ Raise

CreateReturns ==
    /\ api = "create"
    /\ ~stream
    /\ \E r \in Replies :
        /\ responses' = Append(responses, [ok |-> TRUE, chunks |-> <<Content(r)>>])
        /\ Return(Content(r))
    /\ UNCHANGED <<client, earlier, stream, max_questions, question_count, heap, conversation_history,
                   concept, pending, full_response, result, error, call_log>>

CreateStream ==
    /\ api = "create"
    /\ stream
    /\ \E r \in Replies :
        /\ responses' = Append(responses, [ok |-> TRUE, chunks |-> r])
        /\ pending' = r
    /\ full_response' = ""
    /\ api' = "stream"
    /\ UNCHANGED <<client, earlier, stream, max_questions, question_count, heap, conversation_history,
                   pc, concept, question, answer, result, error, call_log>>

\* A chunk loop that skips contents that are blank after stripping.
StreamChunkSkippingBlank ==
    /\ api = "stream"
    /\ pending # <<>>
    /\ full_response' = IF Head(pending) \notin {"", " "}
                        THEN Accumulate(full_response, Head(pending))
                        ELSE full_response
    /\ pending' = Tail(pending)
    /\ UNCHANGED <<client, earlier, stream, max_questions, question_count, heap, conversation_history,
                   pc, api, concept, question, answer, result, error, call_log,
                   responses>>

StreamChunk ==
    /\ api = "stream"
    /\ pending # <<>>
    /\ full_response' = IF Head(pending) # ""
                        THEN Accumulate(full_response, Head(pending))
                        ELSE full_response
    /\ pending' = Tail(pending)
    /\ UNCHANGED <<client, earlier, stream, max_questions, question_count, heap, conversation_history,
                   pc, api, concept, question, answer, result, error, call_log,
                   responses>>

StreamFails ==
    /\ api = "stream"
    /\ pending # <<>>
    /\ responses' = [responses EXCEPT ![Len(responses)].ok = FALSE]
    /\ Raise

StreamEnds ==
    /\ api = "stream"
    /\ pending = <<>>
    /\ Return(full_response)
    /\ full_response' = ""
    /\ UNCHANGED <<client, earlier, stream, max_questions, question_count, heap, conversation_history,
                   concept, pending, result, error, call_log, responses>>

\* ---------------------------------------------------------- specification

Next ==
    \/ \E c \in Concepts : PlayGame(c)
    \/ NextTurn
    \/ GameOver
    \/ AskGuesser
    \/ AskAnswerer
    \/ RecordExchange
    \/ Win
    \/ Continue
    \/ CreateFails
    \/ CreateReturns
    \/ CreateStream
    \/ StreamChunk
    \/ StreamFails
    \/ StreamEnds

Spec == Init /\ [][Next]_vars

\* ------------------------------------------- several games on one object

\* The most play_game calls made on one object.
MaxGames == 3

\* The largest max_questions of an object that plays several games, and how
\* far below zero its max_questions may be set.
MaxReplayTurns == 2

MaxBelowZero == 1

\* The play_game calls made so far: each one allocated a list.
Games == Len(heap) - 1

\* play_game called again on the object, after an earlier call returned or
\* raised.  The caller keeps the outcome it was given; the new call's frame has
\* its own locals.
PlayAgain(c) ==
    /\ pc \in {"returned", "failed"}
    /\ Games < MaxGames
    /\ NewGame(c)
    /\ earlier' = earlier \o result
    /\ result' = <<>>
    /\ error' = "none"
    /\ question' = Unbound
    /\ answer' = Unbound
    /\ call_log' = <<>>
    /\ responses' = <<>>
    /\ UNCHANGED <<client, stream, max_questions, api, pending, full_response>>

InitSessions ==
    /\ client = SmallClient
    /\ earlier = <<>>
    /\ stream \in BOOLEAN
    /\ max_questions \in (0 - MaxBelowZero)..MaxReplayTurns
    /\ question_count = 0
    /\ heap = << <<>> >>
    /\ conversation_history = 1
    /\ pc = "idle"
    /\ api = "none"
    /\ concept = Unbound
    /\ question = Unbound
    /\ answer = Unbound
    /\ pending = <<>>
    /\ full_response = ""
    /\ result = <<>>
    /\ error = "none"
    /\ call_log = <<>>
    /\ responses = <<>>

NextSessions ==
    \/ Next
    \/ \E c \in Concepts : PlayAgain(c)

\* An object with any turn bound, played up to MaxGames times.
SpecSessions == InitSessions /\ [][NextSessions]_vars

\* The same program with every enabled step eventually taken: a call that has
\* been made returns or raises, and the loop goes on.
FairSpec == Spec /\ WF_vars(Next)

\* ------------------------------------------------------------ properties

\* The outcome play_game returned, and the conversation it refers to.
Returned == pc = "returned" /\ result # <<>>

Conversation == heap[result[1].conversation]

\* Some exchange of the history has the answer a.
Answered(a) == \E i \in 1..Len(History) : History[i].answer = a

\* C1: in every state a caller can observe during or after play_game (between
\* the steps of a turn, after a propagated failure, in the returned outcome)
\* question_count equals the number of exchanges in conversation_history.
C1_CountEqualsHistoryLength == question_count = Len(History)

\* C2: if the answer of turn i is exactly "DONE", that turn is the last one: no
\* inference call follows it (2*i calls were made in all), the win test that
\* follows the recording returns at once, and the outcome has success = TRUE and
\* questions_asked = i; this includes a win in turn number max_questions.
C2_DoneWinsAtItsTurn ==
    /\ [](\A i \in 1..Len(History) :
            History[i].answer = "DONE" =>
                /\ i = Len(History)
                /\ Len(call_log) = 2 * i
                /\ pc \in {"check", "returned"}
                /\ pc = "returned" =>
                       /\ result # <<>>
                       /\ result[1].success
                       /\ result[1].questions_asked = i
                       /\ Len(Conversation) = i)
    /\ [][(pc = "check" /\ answer = "DONE") => pc' = "returned"]_vars

C2_Witness ==
    /\ Returned
    /\ result[1].success
    /\ max_questions = MaxTurns
    /\ result[1].questions_asked = max_questions
    /\ Conversation[1].answer = "No"
    /\ Conversation[2].answer = "Sometimes"
    /\ Conversation[3].answer = "DONE"

\* C3: when play_game returns and no recorded answer is "DONE" (every call
\* returned, none within the max_questions turns was a win), the outcome has
\* success = FALSE, questions_asked = max_questions and a conversation of
\* exactly max_questions exchanges.
C3_ExhaustionOutcome ==
    (Returned /\ ~Answered("DONE")) =>
        /\ ~result[1].success
        /\ result[1].questions_asked = max_questions
        /\ Len(Conversation) = max_questions

C3_Witness ==
    /\ Returned
    /\ max_questions = 2
    /\ Len(Conversation) = 2
    /\ \A i \in 1..2 : Conversation[i].answer = "No"
    /\ ~result[1].success

\* C4: the history and the turn counter never exceed max_questions, and a
\* returned outcome has questions_asked <= max_questions.
C4_BoundedByMaxQuestions ==
    /\ Len(History) <= max_questions
    /\ question_count <= max_questions
    /\ result # <<>> => /\ result[1].questions_asked <= max_questions
                        /\ Len(Conversation) <= max_questions

C4_Witness ==
    /\ pc = "check"
    /\ Len(History) = max_questions
    /\ question_count = max_questions
    /\ max_questions = MaxTurns

\* C5: the win test that follows the recording of a turn ends the game as a
\* win if and only if the answer is exactly "DONE"; after any other answer
\* (other case, surrounding whitespace or punctuation, another vocabulary term)
\* no outcome is produced there and control goes back to the loop.  A success
\* outcome exists only with "DONE" as the last recorded answer.
C5_WinIffExactlyDone ==
    /\ [](Returned /\ result[1].success =>
            /\ Conversation # <<>>
            /\ Conversation[Len(Conversation)].answer = "DONE")
    /\ [][pc = "check" =>
            IF answer = "DONE"
            THEN pc' = "returned" /\ result' # <<>> /\ result'[1].success
            ELSE pc' = "loop" /\ result' = <<>>]_vars

C5_Witness ==
    /\ pc = "ask"
    /\ question_count = 3
    /\ History[1].answer = " DONE"
    /\ History[2].answer = "DONE."

\* C6: provided no inference call fails (under FairSpec each one returns),
\* play_game eventually returns an outcome, and it has then run at most
\* max_questions iterations and made at most 2 * max_questions inference calls,
\* whatever texts the two roles produced.
C6_GameTerminates ==
    ([](error = "none")) =>
        <>(/\ Returned
           /\ question_count <= max_questions
           /\ Len(call_log) <= 2 * max_questions)

C6_Witness ==
    /\ Returned
    /\ ~result[1].success
    /\ max_questions = MaxTurns
    /\ Len(call_log) = 2 * max_questions
    /\ Answered("DONE.")

\* C7: a game started with an empty concept is rejected before any inference
\* call: no guesser or answerer request is ever made in that session.
C7_EmptyConceptMakesNoCall == concept = "" => call_log = <<>>

\* The responses that were failures of the client.
Failures == {i \in 1..Len(responses) : ~responses[i].ok}

\* C8: a failed inference call is the last thing the session does: it is the
\* last request made (no retry, no later call), play_game has been left with
\* the InferenceError, and no outcome exists, neither a success nor the
\* "maximum questions reached" one.
C8_FailurePropagates ==
    /\ \A i \in Failures :
        /\ i = Len(responses)
        /\ i = Len(call_log)
        /\ pc = "failed"
        /\ api = "none"
        /\ error = "InferenceError"
        /\ result = <<>>
    /\ pc = "failed" => Failures # {}

C8_Witness ==
    /\ pc = "failed"
    /\ Len(call_log) = 2 * MaxTurns
    /\ question_count = max_questions
    /\ responses[Len(responses)].chunks = <<"D", "ONE">>

\* The turn the last request belongs to.
TurnOfLastCall == (Len(call_log) + 1) \div 2

\* C9: after an inference failure in turn N the history holds exactly the N-1
\* exchanges of the turns completed before, in order, each pairing the texts the
\* client delivered for that turn; nothing is recorded for the failed turn.
C9_HistoryAfterFailure ==
    pc = "failed" =>
        /\ Len(History) = TurnOfLastCall - 1
        /\ \A i \in 1..Len(History) :
            /\ responses[2 * i - 1].ok /\ responses[2 * i].ok
            /\ History[i] = [question |-> Content(responses[2 * i - 1].chunks),
                             answer |-> Content(responses[2 * i].chunks)]

C9_Witness ==
    /\ pc = "failed"
    /\ call_log[Len(call_log)].role = "answerer"
    /\ TurnOfLastCall = 3
    /\ Len(History) = 2
    /\ question # History[2].question

\* C10: with streaming, the question and the answer of a turn are the
\* concatenation of all chunks of their streams in emission order: the locals
\* hold it once the call has returned, the history records it, the win test
\* runs on it with the stream drained, and the game is won exactly when the
\* whole streamed answer is "DONE" (chunks "D","ONE" win; "DONE","." do not).
C10_StreamedTextIsWhole ==
    stream =>
        /\ \A i \in 1..Len(History) :
            History[i] = [question |-> Content(responses[2 * i - 1].chunks),
                          answer |-> Content(responses[2 * i].chunks)]
        /\ pc \in {"answer", "record", "check"} =>
               question = Content(responses[2 * question_count - 1].chunks)
        /\ pc \in {"record", "check"} =>
               /\ answer = Content(responses[2 * question_count].chunks)
               /\ pending = <<>>
               /\ api = "none"
        /\ Returned =>
               (result[1].success <=>
                    /\ responses # <<>>
                    /\ Content(responses[Len(responses)].chunks) = "DONE")

C10_Witness ==
    /\ stream
    /\ Returned
    /\ result[1].success
    /\ responses[Len(responses)].chunks = <<"D", "ONE">>
    /\ Conversation[Len(Conversation)].answer = "DONE"
    /\ Len(Conversation) = 2
    /\ responses[2].chunks = <<"DONE", ".">>
    /\ Conversation[1].question = "Is it Einstein?"

\* C11: the history is append-only.  A step changes a list only by appending
\* one exchange to it (what was recorded stays, unchanged and in order), the
\* recording step of a completed turn appends exactly the exchange of that
\* turn's question and answer, and no other step of the game changes the
\* history.
C11_HistoryAppendOnly ==
    [][/\ \A k \in DOMAIN heap :
            /\ k \in DOMAIN heap'
            /\ Len(heap'[k]) \in {Len(heap[k]), Len(heap[k]) + 1}
            /\ SubSeq(heap'[k], 1, Len(heap[k])) = heap[k]
       /\ pc = "record" =>
            History' = Append(History, [question |-> question, answer |-> answer])
       /\ pc \notin {"idle", "record"} => History' = History]_vars

C11_Witness ==
    /\ pc = "check"
    /\ Len(History) = 3
    /\ History[1].answer = "Yes"
    /\ History[2].answer = "No"
    /\ History[3] = [question |-> question, answer |-> answer]

\* The text of the k-th response of the session.
TextOf(k) == Content(responses[k].chunks)

\* The number of requests made in this play_game call; the latest is
\* call_log[Calls].
Calls == Len(call_log)

\* C12: turns are sequential.  Requests alternate guesser, answerer; the
\* guesser request of turn t, from when it is made and as long as it is the
\* latest, carries exactly the t-1 exchanges recorded before it; the answerer
\* request of turn t carries the question that turn's guesser call returned;
\* the exchange of turn t pairs that question with that turn's answer; and no
\* request of turn t+1 is made before exchange t is recorded.
C12_TurnsSequential ==
    /\ \A k \in 1..Calls :
        call_log[k].role = (IF k % 2 = 1 THEN "guesser" ELSE "answerer")
    /\ Calls > 0 =>
        IF Calls % 2 = 1
        THEN /\ Len(History) = (Calls - 1) \div 2
             /\ call_log[Calls].messages = GuesserMessages(History)
        ELSE /\ responses[Calls - 1].ok
             /\ Len(History) \in {Calls \div 2 - 1, Calls \div 2}
             /\ call_log[Calls].messages =
                    AnswererMessages(concept, TextOf(Calls - 1))
    /\ \A i \in 1..Len(History) :
        /\ Len(responses) >= 2 * i
        /\ History[i] = [question |-> TextOf(2 * i - 1), answer |-> TextOf(2 * i)]
    /\ Len(call_log) <= 2 * Len(History) + 2

C12_Witness ==
    /\ Len(call_log) = 6
    /\ pc = "check"
    /\ History[1].question # History[2].question
    /\ History[2].question # History[3].question

\* The answerer requests made so far, by position in call_log.
AnswererCalls == {k \in 1..Len(call_log) : call_log[k].role = "answerer"}

\* C13: the answerer's messages depend only on the concept and the current
\* question: two answerer requests for the same question, made with different
\* histories, carry identical messages (a system and a user message).
C13_AnswererStateless ==
    \A i \in AnswererCalls :
        /\ Len(call_log[i].messages) = 2
        /\ \A j \in AnswererCalls :
            TextOf(i - 1) = TextOf(j - 1) =>
                call_log[i].messages = call_log[j].messages

C13_Witness ==
    /\ Len(call_log) = 4
    /\ TextOf(1) = TextOf(3)
    /\ History # <<>>
    /\ History[1].answer = "Sometimes"

\* The Q/A pair of exchange i, and the first n pairs in turn order.
Pair(h, i) ==
    "Q" \o ToString(i) \o ": " \o h[i].question \o "\n"
        \o "A" \o ToString(i) \o ": " \o h[i].answer

RECURSIVE Transcript(_, _)
Transcript(h, n) ==
    IF n = 0 THEN ""
    ELSE IF n = 1 THEN Pair(h, 1)
    ELSE Transcript(h, n - 1) \o "\n" \o Pair(h, n)

\* C14: the user message of a guesser request (checked while it is the latest
\* request, the history being the one it was given) renders the whole history
\* as Q{i}/A{i} pairs numbered from 1 in turn order, each exchange once, and
\* holds the "first question" marker instead exactly when the history is empty.
C14_GuesserPromptRendersHistory ==
    (Calls > 0 /\ call_log[Calls].role = "guesser") =>
        call_log[Calls].messages[2] =
            [role |-> "user",
             content |->
                "Based on this conversation history, what is your next question?\n\n"
                \o (IF History = <<>> THEN "This is the first question."
                    ELSE Transcript(History, Len(History)))
                \o "\n\nAsk your next question:"]

C14_Witness ==
    /\ Len(call_log) = 5
    /\ History[1].answer = "Partially"
    /\ History[2].answer = "I don't know"

\* C15: the concept is fixed for the session: it does not change once
\* play_game has received it, every answerer request names it, and the outcome
\* of either path reports it.
C15_ConceptFixed ==
    /\ [](\A k \in AnswererCalls :
            call_log[k].messages[1].content =
                "You are playing Akinator. You know the secret concept: \""
                \o concept
                \o "\". Answer only with Yes, No, Sometimes, Partially, I don't know, DONE.")
    /\ [](Returned => result[1].concept = concept)
    /\ [][pc \notin {"idle", "returned", "failed"} => concept' = concept]_vars

C15_Witness ==
    /\ Returned
    /\ result[1].success
    /\ result[1].concept = "Einstein"
    /\ Len(call_log) = 4

\* C16: every guesser request uses a strictly higher temperature than every
\* answerer request, and all requests of a role use the same temperature.
C16_TemperatureByRole ==
    \A i, j \in 1..Len(call_log) :
        /\ (call_log[i].role = "guesser" /\ call_log[j].role = "answerer") =>
                call_log[i].temperature > call_log[j].temperature
        /\ call_log[i].role = call_log[j].role =>
                call_log[i].temperature = call_log[j].temperature

C16_Witness ==
    /\ Len(call_log) = 6
    /\ call_log[5].role = "guesser"
    /\ call_log[6].role = "answerer"

\* The game as a function of the complete texts delivered so far, whatever
\* their division into chunks: the exchanges, and the outcome.
TextHistory(n) == [i \in 1..n |-> [question |-> TextOf(2 * i - 1), answer |-> TextOf(2 * i)]]

\* C19: streaming does not change the game.  With stream on or off, the
\* requests made (roles, temperatures, and the messages of each request when it
\* is made), the exchanges recorded and the outcome returned are the same
\* function of the complete texts the client delivered; only the request's
\* stream flag differs.
C19_StreamingSameGame ==
    /\ \A k \in 1..Calls :
        /\ call_log[k].stream = stream
        /\ call_log[k].role = (IF k % 2 = 1 THEN "guesser" ELSE "answerer")
        /\ call_log[k].temperature =
                (IF k % 2 = 1 THEN GuesserTemperature ELSE AnswererTemperature)
    /\ Calls > 0 =>
            call_log[Calls].messages =
                (IF Calls % 2 = 1
                 THEN GuesserMessages(TextHistory((Calls - 1) \div 2))
                 ELSE AnswererMessages(concept, TextOf(Calls - 1)))
    /\ History = TextHistory(Len(History))
    /\ pc \in {"check", "loop", "returned"} => Len(History) = Len(responses) \div 2
    /\ pc = "check" => answer = TextOf(Len(responses))
    /\ Returned =>
            /\ result[1].success = (responses # <<>> /\ TextOf(Len(responses)) = "DONE")
            /\ result[1].questions_asked = Len(responses) \div 2
            /\ Conversation = TextHistory(Len(responses) \div 2)

C19_Witness ==
    /\ stream
    /\ Returned
    /\ ~result[1].success
    /\ Len(Conversation) = 2
    /\ responses[1].chunks = <<"Is it ", "Einstein?">>
    /\ responses[2].chunks = <<" ", "DONE">>
    /\ responses[4].chunks = <<"", "No">>

\* The outcomes callers hold: those of earlier calls, and the last one.
Held == earlier \o result

\* C17: an outcome is immutable once returned.  Whatever the object does next
\* (another play_game to a win, to exhaustion or to a failure part-way), every
\* outcome handed out keeps its success, concept and questions_asked, and the
\* conversation it refers to keeps its exchanges.
C17_OutcomeImmutable ==
    [][\A i \in 1..Len(Held) :
            /\ Len(Held') >= i
            /\ Held'[i] = Held[i]
            /\ heap'[Held[i].conversation] = heap[Held[i].conversation]]_vars

C17_Witness ==
    /\ Len(earlier) = 2
    /\ earlier[1].success /\ earlier[1].questions_asked = 2
    /\ Len(heap[earlier[1].conversation]) = 2
    /\ ~earlier[2].success /\ earlier[2].questions_asked = 2
    /\ pc = "failed"
    /\ Len(History) = 1

\* C18: every play_game call starts afresh.  In a call made after an earlier
\* one on the same object (ended by win, exhaustion or failure) the game starts
\* with counter 0 and an empty history, the first guesser request carries the
\* empty history, and the outcome counts the turns of this call alone.
C18_EveryGameStartsAfresh ==
    Games >= 2 =>
        /\ (pc = "loop" /\ call_log = <<>>) =>
                (question_count = 0 /\ History = <<>>)
        /\ call_log # <<>> => call_log[1].messages = GuesserMessages(<<>>)
        /\ Returned =>
                /\ result[1].questions_asked = Len(responses) \div 2
                /\ Len(Conversation) = Len(responses) \div 2

C18_Witness ==
    /\ Games = 3
    /\ Len(earlier) = 1
    /\ earlier[1].success
    /\ Len(heap[3]) = 1
    /\ Returned
    /\ ~result[1].success
    /\ result[1].questions_asked = 2

\* C20: with max_questions zero or negative, play_game makes no inference call
\* and returns success = FALSE, questions_asked = 0 and an empty conversation;
\* so the "game over" outcome has questions_asked = max_questions exactly for
\* the bounds that are not negative.
C20_NoTurnsForNonPositiveBound ==
    /\ (max_questions <= 0 /\ pc # "idle") =>
            /\ call_log = <<>>
            /\ pc \in {"loop", "returned"}
            /\ Returned => /\ ~result[1].success
                           /\ result[1].questions_asked = 0
                           /\ Conversation = <<>>
    /\ (Returned /\ ~result[1].success) =>
            (result[1].questions_asked = max_questions <=> max_questions >= 0)

C20_Witness ==
    /\ max_questions < 0
    /\ Returned
    /\ Games = 2
    /\ result[1].questions_asked = 0
    /\ Len(earlier) = 1

====
